---- MODULE Spec2Model ----
(***************************************************************************)
(* velora: the routing enforcer (internal/controllers/routing/routing.go), *)
(* the configuration model (internal/config/model.go) and the Azure client *)
(* factory, as a state machine.  The Azure environment (virtual networks,  *)
(* subnets, route tables) is the external collaborator: its listings are   *)
(* paged, any call into it may fail, and a started create-or-update of a   *)
(* route completes asynchronously.                                         *)
(***************************************************************************)
EXTENDS Integers, Sequences, FiniteSets, TLC

(***************************************************************************)
(* Bounds of the model.                                                    *)
(***************************************************************************)
\* routes per generated route table
MaxRoutes == 2
\* pages per generated route listing
MaxPages == 2
\* invocations of EnforceAll in one behaviour
MaxRuns == 2
\* key/value pairs of a generated resource ID
MaxPairs == 3

(***************************************************************************)
(* Go values.  A nil *string is NilPtr, a nil struct pointer is NilRef.    *)
(* A resource ID or any other "/"-separated text is kept as the sequence   *)
(* of its segments, i.e. as strings.Split(text, "/") returns it.           *)
(***************************************************************************)
NilPtr == "<nil>"
NilRef == << >>

\* routing.go:173, the address prefix of the default route
DefaultPrefix == "0.0.0.0/0"
\* routing.go:172, the reserved route name
DefaultRouteName == "DefaultRoute-To-NVA"
\* armnetwork.RouteNextHopTypeVirtualAppliance
RouteNextHopTypeVirtualAppliance == "VirtualAppliance"
RouteNextHopTypeInternet == "Internet"

\* Go's map lookup: the zero value "" for a missing key.
MapGet(m, k) == IF k \in DOMAIN m THEN m[k] ELSE ""

\* the loop, were it to keep the first value of a repeated key
RECURSIVE ExtractLoopFirstWins(_, _, _)
ExtractLoopFirstWins(parts, i, result) ==
    IF i < Len(parts) - 1
    THEN ExtractLoopFirstWins(parts, i + 2,
             [k \in DOMAIN result \cup {parts[i + 1]} |->
                 IF k \in DOMAIN result THEN result[k] ELSE parts[i + 2]])
    ELSE result

\* routing.go:201-203, the loop of extractResourceIDParts; i is Go's index
\* into parts (0-based), parts[i] is parts[i + 1] here.
RECURSIVE ExtractLoop(_, _, _)
ExtractLoop(parts, i, result) ==
    IF i < Len(parts) - 1
    THEN ExtractLoop(parts, i + 2,
                     [k \in DOMAIN result \cup {parts[i + 1]} |->
                        IF k = parts[i + 1] THEN parts[i + 2] ELSE result[k]])
    ELSE result

\* routing.go:197-206
extractResourceIDParts(resourceID) == ExtractLoop(resourceID, 1, << >>)

(***************************************************************************)
(* net.ParseIP and net.ParseCIDR on the texts the model uses: an address   *)
(* text is looked up as its "."-separated fields (a number, or -1 for a    *)
(* field that is no decimal number).                                       *)
(***************************************************************************)
DottedFields(text) ==
    CASE text = "10.0.0.4"   -> <<10, 0, 0, 4>>
      [] text = "10.0.0.5"   -> <<10, 0, 0, 5>>
      [] text = "10.0.0.0"   -> <<10, 0, 0, 0>>
      [] text = "10.0.1.0"   -> <<10, 0, 1, 0>>
      [] text = "0.0.0.0"    -> <<0, 0, 0, 0>>
      [] text = "10.0.0.256" -> <<10, 0, 0, 256>>
      [] text = "10.0.0"     -> <<10, 0, 0>>
      [] text = "nva"        -> <<-1>>
      [] OTHER               -> << >>

\* net.ParseIP(s) # nil, for dotted-quad IPv4 text
ParseIP(text) ==
    LET f == DottedFields(text)
    IN  Len(f) = 4 /\ \A i \in 1..4 : f[i] >= 0 /\ f[i] <= 255

\* A CIDR text split at its "/": <<address text, prefix length>>, or the
\* text alone when it has no "/".
SlashFields(text) ==
    CASE text = "10.0.0.0/16"   -> <<"10.0.0.0", 16>>
      [] text = "10.0.1.0/24"   -> <<"10.0.1.0", 24>>
      [] text = "0.0.0.0/0"     -> <<"0.0.0.0", 0>>
      [] text = "10.0.0.0/33"   -> <<"10.0.0.0", 33>>
      [] text = "10.0.0.256/16" -> <<"10.0.0.256", 16>>
      [] OTHER                  -> <<text>>

\* net.ParseCIDR(s) returns no error
ParseCIDR(text) ==
    LET f == SlashFields(text)
    IN  Len(f) = 2 /\ ParseIP(f[1]) /\ f[2] >= 0 /\ f[2] <= 32

\* An Azure resource ID, as its "/"-separated segments.
ResourceID(sub, rg, type, name) ==
    <<"", "subscriptions", sub, "resourceGroups", rg, "providers",
      "Microsoft.Network", type, name>>

(***************************************************************************)
(* internal/config/model.go                                                *)
(***************************************************************************)
\* model.go:28-33: a hub of that name; its network lives in the hub
\* subscription under the hub's name.
HubVNetConfig(name, nvaNextHop) ==
    [VNetID |-> ResourceID("sub-hub", "rg-hub", "virtualNetworks", name),
     ResourceGroup |-> "rg-hub", Name |-> name, NVANextHop |-> nvaNextHop]

\* model.go:36-42
SubscriptionConfig(cidrs, hubName, requireNVARouting, subnetToSubnetDeny) ==
    [AllowedCIDRs |-> cidrs, HubName |-> hubName,
     RequireNVARouting |-> requireNVARouting,
     SubnetToSubnetDeny |-> subnetToSubnetDeny]

\* model.go:9-67, the zero value of Config (part_002:52, var cfg Config); a
\* nil slice and a nil map are the empty sequence and the empty function.
ZeroConfig ==
    [Azure |-> [SubscriptionID |-> "", TenantID |-> "", ClientID |-> ""],
     Hubs |-> << >>, Subscriptions |-> << >>,
     Features |-> [IPAMEnforcement |-> FALSE, RoutingEnforcement |-> FALSE,
                   PeeringEnforcement |-> FALSE, ComplianceScanning |-> FALSE,
                   AutoRemediation |-> FALSE],
     API |-> [ListenAddress |-> "", Port |-> 0],
     Logging |-> [Level |-> "", Format |-> ""]]

\* model.go:9-16, a configuration as a file states it: the subscription the
\* factory starts with, the hubs, the subscriptions, routing enforcement as
\* given and peering enforcement on.
Config(hubs, subscriptions, routingEnforcement) ==
    [ZeroConfig EXCEPT
        !.Azure.SubscriptionID = "sub-0",
        !.Hubs = hubs,
        !.Subscriptions = subscriptions,
        !.Features.RoutingEnforcement = routingEnforcement,
        !.Features.PeeringEnforcement = TRUE,
        !.API.Port = 8080]

\* The nil error, and an error value: its message and the values formatted
\* into it.
NoError == [msg |-> "", args |-> << >>]
Errorf(msg, args) == [msg |-> msg, args |-> args]

\* model.go:73-77, the inner loop over one subscription's AllowedCIDRs: the
\* error of the first text that does not parse, else nil.
RECURSIVE ValidateCIDRs(_, _)
ValidateCIDRs(cidrs, i) ==
    IF i > Len(cidrs) THEN NoError
    ELSE IF ~ParseCIDR(cidrs[i])
         THEN Errorf("invalid CIDR in allowedIPRanges", <<cidrs[i]>>)
         ELSE ValidateCIDRs(cidrs, i + 1)

\* the loop over the hubs, were it to return after its first iteration
ValidateHubsFirstOnly(hubs, i) ==
    IF i > Len(hubs) THEN NoError
    ELSE IF hubs[i].NVANextHop # "" /\ ~ParseIP(hubs[i].NVANextHop)
         THEN Errorf("invalid NVA IP", <<hubs[i].NVANextHop>>)
         ELSE NoError

\* model.go:86-92, the loop over the hubs
RECURSIVE ValidateHubs(_, _)
ValidateHubs(hubs, i) ==
    IF i > Len(hubs) THEN NoError
    ELSE IF hubs[i].NVANextHop # "" /\ ~ParseIP(hubs[i].NVANextHop)
         THEN Errorf("invalid NVA IP", <<hubs[i].NVANextHop>>)
         ELSE ValidateHubs(hubs, i + 1)

\* model.go:70-95, Config.Validate: the set of errors it can return (Go ranges
\* over the Subscriptions map in an unspecified order, so with several
\* subscriptions holding a bad CIDR the one reported is not determined).
Validate(c) ==
    LET bad == {ValidateCIDRs(c.Subscriptions[s].AllowedCIDRs, 1) :
                    s \in DOMAIN c.Subscriptions} \ {NoError}
    IN  IF bad # {} THEN bad
        ELSE IF Len(c.Hubs) = 0
             THEN {Errorf("at least one hub configuration is required", << >>)}
             ELSE {ValidateHubs(c.Hubs, 1)}

(***************************************************************************)
(* The loader (config package, part_002): the file, the environment         *)
(* variables and the overrides.                                            *)
(***************************************************************************)
\* the environment variables overrideFromEnv reads, without EnvPrefix
EnvNames ==
    {"AZURE_TENANT_ID", "AZURE_CLIENT_ID", "AZURE_SUBSCRIPTION_ID",
     "FEATURE_IPAM_ENFORCEMENT", "FEATURE_ROUTING_ENFORCEMENT",
     "FEATURE_PEERING_ENFORCEMENT", "FEATURE_COMPLIANCE_SCANNING",
     "FEATURE_AUTO_REMEDIATION", "API_LISTEN_ADDRESS", "API_PORT",
     "LOGGING_LEVEL", "LOGGING_FORMAT"}

\* no variable is set: os.Getenv returns "" for each
NoEnviron == [n \in EnvNames |-> ""]

\* strings.ToLower on the texts the model uses
ToLower(text) ==
    CASE text = "TRUE" -> "true"
      [] text = "True" -> "true"
      [] text = "FALSE" -> "false"
      [] OTHER -> text

\* strconv.Atoi on the texts the model uses: the number and whether the text
\* is one
Atoi(text) ==
    CASE text = "8443" -> [value |-> 8443, ok |-> TRUE]
      [] text = "0"    -> [value |-> 0, ok |-> TRUE]
      [] text = "-1"   -> [value |-> -1, ok |-> TRUE]
      [] OTHER         -> [value |-> 0, ok |-> FALSE]

\* a string field under an override: the variable's value unless it is ""
OverrideText(old, val) == IF val # "" THEN val ELSE old

\* part_002:74-88, a feature flag under an override
OverrideFlag(old, val) == IF val # "" THEN ToLower(val) = "true" ELSE old

\* the port override, were a text that is no number left aside
OverridePortLenient(cfg, val) ==
    IF val # "" /\ Atoi(val).ok
    THEN [cfg |-> [cfg EXCEPT !.API.Port = Atoi(val).value], err |-> NoError]
    ELSE [cfg |-> cfg, err |-> NoError]

\* part_002:94-100, the port override: the configuration and the error
OverridePort(cfg, val) ==
    IF val # ""
    THEN IF Atoi(val).ok
         THEN [cfg |-> [cfg EXCEPT !.API.Port = Atoi(val).value], err |-> NoError]
         ELSE [cfg |-> cfg, err |-> Errorf("invalid API port", <<val>>)]
    ELSE [cfg |-> cfg, err |-> NoError]

\* part_002:61-111, overrideFromEnv: the configuration as it leaves it and
\* the error it returns.  The overrides before the port are made even when
\* the port is rejected; those after it are not.
overrideFromEnv(cfg, environ) ==
    LET upToPort ==
            [cfg EXCEPT
                !.Azure.TenantID = OverrideText(@, environ["AZURE_TENANT_ID"]),
                !.Azure.ClientID = OverrideText(@, environ["AZURE_CLIENT_ID"]),
                !.Azure.SubscriptionID =
                    OverrideText(@, environ["AZURE_SUBSCRIPTION_ID"]),
                !.Features.IPAMEnforcement =
                    OverrideFlag(@, environ["FEATURE_IPAM_ENFORCEMENT"]),
                !.Features.RoutingEnforcement =
                    OverrideFlag(@, environ["FEATURE_ROUTING_ENFORCEMENT"]),
                !.Features.PeeringEnforcement =
                    OverrideFlag(@, environ["FEATURE_PEERING_ENFORCEMENT"]),
                !.Features.ComplianceScanning =
                    OverrideFlag(@, environ["FEATURE_COMPLIANCE_SCANNING"]),
                !.Features.AutoRemediation =
                    OverrideFlag(@, environ["FEATURE_AUTO_REMEDIATION"]),
                !.API.ListenAddress =
                    OverrideText(@, environ["API_LISTEN_ADDRESS"])]
        port == OverridePort(upToPort, environ["API_PORT"])
    IN  IF port.err # NoError THEN port
        ELSE [cfg |-> [port.cfg EXCEPT
                          !.Logging.Level =
                              OverrideText(@, environ["LOGGING_LEVEL"]),
                          !.Logging.Format =
                              OverrideText(@, environ["LOGGING_FORMAT"])],
              err |-> NoError]

\* what the process finds: the configuration file (read and parsed, missing,
\* or no JSON) and the environment variables
OS(file, data, environ) == [file |-> file, data |-> data, environ |-> environ]

(***************************************************************************)
(* The Azure environment as the armnetwork clients show it.                *)
(***************************************************************************)
\* armnetwork.VirtualNetwork: ID and Name (routing.go:83), and
\* Properties.VirtualNetworkPeerings as the IDs of the remote networks
VirtualNetwork(id, name, peerings) ==
    [ID |-> id, Name |-> name, Peerings |-> peerings]

\* the network of the hub of that name, and a network that is no hub
HubNetwork(name) == ResourceID("sub-hub", "rg-hub", "virtualNetworks", name)
OtherNetwork == ResourceID("sub-x", "rg-x", "virtualNetworks", "vnet-x")

\* armnetwork.Subnet: Name and Properties.RouteTable, the ID of the table or
\* NilRef (routing.go:116-124)
Subnet(name, routeTable) == [Name |-> name, RouteTable |-> routeTable]

\* armnetwork.Route: Name and the three properties the scan reads
\* (routing.go:147-152)
Route(name, prefix, nextHopType, nextHopIP) ==
    [Name |-> name, AddressPrefix |-> prefix, NextHopType |-> nextHopType,
     NextHopIPAddress |-> nextHopIP]

\* A resource ID without a resource group (a subscription-level ID).
SubscriptionLevelID(sub, type, name) ==
    <<"", "subscriptions", sub, "providers", "Microsoft.Network", type, name>>

(***************************************************************************)
(* The environments and configurations a behaviour starts from.            *)
(***************************************************************************)
\* the properties of a route, without its name
RouteKinds ==
    { [AddressPrefix |-> DefaultPrefix,
       NextHopType |-> RouteNextHopTypeVirtualAppliance,
       NextHopIPAddress |-> "10.0.0.4"],
      [AddressPrefix |-> DefaultPrefix,
       NextHopType |-> RouteNextHopTypeVirtualAppliance,
       NextHopIPAddress |-> "10.0.0.5"],
      [AddressPrefix |-> DefaultPrefix,
       NextHopType |-> RouteNextHopTypeInternet,
       NextHopIPAddress |-> NilPtr],
      [AddressPrefix |-> DefaultPrefix,
       NextHopType |-> NilPtr,
       NextHopIPAddress |-> "10.0.0.4"],
      [AddressPrefix |-> "10.0.1.0/24",
       NextHopType |-> RouteNextHopTypeVirtualAppliance,
       NextHopIPAddress |-> "10.0.0.4"],
      [AddressPrefix |-> NilPtr,
       NextHopType |-> RouteNextHopTypeVirtualAppliance,
       NextHopIPAddress |-> "10.0.0.4"] }

\* names of the routes of a table, by position in the listing
RouteNames == <<"route-a", "route-b", "route-c", "route-d", "route-e">>

\* pages of at most n routes
KindPages(n) == UNION {[1..k -> RouteKinds] : k \in 0..n}

\* listings of exactly m pages holding at most budget routes together
RECURSIVE KindTables(_, _)
KindTables(m, budget) ==
    IF m = 0 THEN {<< >>}
    ELSE UNION {{<<p>> \o t : t \in KindTables(m - 1, budget - Len(p))} :
                    p \in KindPages(budget)}

\* number of routes on the pages before page p
RECURSIVE PageOffset(_, _)
PageOffset(t, p) == IF p <= 1 THEN 0 ELSE PageOffset(t, p - 1) + Len(t[p - 1])

\* the listing t with its routes named; the r-th carries the reserved name
NamedTable(t, r) ==
    [p \in DOMAIN t |->
        [i \in DOMAIN t[p] |->
            LET n == PageOffset(t, p) + i
            IN  Route(IF n = r THEN DefaultRouteName ELSE RouteNames[n],
                      t[p][i].AddressPrefix, t[p][i].NextHopType,
                      t[p][i].NextHopIPAddress)]]

\* every route listing within the bounds
GeneratedTables ==
    UNION {{NamedTable(t, r) : r \in 0..PageOffset(t, Len(t) + 1)} :
              t \in UNION {KindTables(m, MaxRoutes) : m \in 1..MaxPages}}

\* three listings for the environments with several subscriptions
EmptyTable == << << >> >>
CompliantTable ==
    << <<Route(DefaultRouteName, DefaultPrefix,
               RouteNextHopTypeVirtualAppliance, "10.0.0.4")>> >>
InternetTable ==
    << <<Route("route-a", DefaultPrefix, RouteNextHopTypeInternet, NilPtr)>> >>

\* One subscription, one network, one subnet, any route listing.
SingleSubnetStarts ==
    { [config |->
          Config(<<HubVNetConfig("hub1", nva)>>,
                 [s \in {"sub-a"} |->
                     SubscriptionConfig(<<"10.0.0.0/16">>, "hub1", TRUE, FALSE)],
                 TRUE),
       vnetPages |->
          [s \in {"sub-a"} |->
              << <<VirtualNetwork(
                      ResourceID("sub-a", "rg1", "virtualNetworks", "vnet1"),
                      "vnet1", <<HubNetwork("hub1")>>)>> >>],
       subnetPages |->
          [k \in {<<"sub-a", "rg1", "vnet1">>} |->
              << <<Subnet("subnetA",
                      ResourceID("sub-a", "rg1", "routeTables", "rt1"))>> >>],
       routeTables |-> [k \in {<<"sub-a", "rg1", "rt1">>} |-> table]] :
      nva \in {"10.0.0.4", ""}, table \in GeneratedTables }

\* Two subscriptions; sub-a holds a network of two subnets on two pages, of
\* which the first may have no route table and otherwise shares the second's;
\* sub-b holds a network of one subnet, whose ID may lack a resource group.
HubLists ==
    { <<HubVNetConfig("hub1", "10.0.0.4")>>,
      <<HubVNetConfig("hub1", "10.0.0.4"), HubVNetConfig("hub2", "10.0.0.5")>>,
      <<HubVNetConfig("hub1", "")>>,
      << >>,
      <<HubVNetConfig("hub1", "10.0.0.256")>> }

TwoSubscriptionStarts ==
    { [config |->
          Config(hubs,
                 [s \in {"sub-a", "sub-b"} |->
                     IF s = "sub-a"
                     THEN SubscriptionConfig(<<"10.0.0.0/16">>, "hub1", nvaA, denyA)
                     ELSE SubscriptionConfig(<<"10.0.0.0/16">>, hubB, TRUE, FALSE)],
                 enabled),
       vnetPages |->
          [s \in {"sub-a", "sub-b"} |->
              IF s = "sub-a"
              THEN << <<VirtualNetwork(
                          ResourceID("sub-a", "rg1", "virtualNetworks", "vnet1"),
                          "vnet1", <<HubNetwork("hub1")>>)>> >>
              ELSE << <<VirtualNetwork(vnet2ID, "vnet2",
                          <<HubNetwork(hubB), OtherNetwork>>)>> >>],
       subnetPages |->
          [k \in {<<"sub-a", "rg1", "vnet1">>, <<"sub-b", "rg2", "vnet2">>} |->
              IF k[1] = "sub-a"
              THEN << <<Subnet("subnetA", rtA)>>,
                      <<Subnet("subnetB",
                          ResourceID("sub-a", "rg1", "routeTables", "rt1"))>> >>
              ELSE << <<Subnet("subnetC",
                          ResourceID("sub-b", "rg2", "routeTables", "rt2"))>> >>],
       routeTables |->
          [k \in {<<"sub-a", "rg1", "rt1">>, <<"sub-b", "rg2", "rt2">>} |->
              IF k[1] = "sub-a" THEN table1 ELSE table2]] :
      hubs \in HubLists, nvaA \in BOOLEAN, denyA \in BOOLEAN,
      hubB \in {"hub1", "hub2"}, enabled \in BOOLEAN,
      vnet2ID \in {ResourceID("sub-b", "rg2", "virtualNetworks", "vnet2"),
                   SubscriptionLevelID("sub-b", "virtualNetworks", "vnet2")},
      rtA \in {NilRef, ResourceID("sub-a", "rg1", "routeTables", "rt1")},
      table1 \in {EmptyTable, CompliantTable, InternetTable},
      table2 \in {EmptyTable, CompliantTable} }

\* Configurations as LoadConfig may read them, routing enforcement off:
\* allowed CIDRs and NVA addresses that parse and that do not.
CIDRLists ==
    { << >>, <<"10.0.0.0/16">>, <<"10.0.0.0/33">>, <<"10.0.0.0/16", "10.0.0.0">>,
      <<"10.0.0.256/16", "10.0.1.0/24">> }

ConfigStarts ==
    { [config |->
          Config(hubs,
                 [s \in subs |->
                     SubscriptionConfig(IF s = "sub-a" THEN cidrsA ELSE cidrsB,
                                        "hub1", TRUE, FALSE)],
                 FALSE),
       vnetPages |-> [s \in subs |-> << << >> >>],
       subnetPages |-> << >>,
       routeTables |-> << >>] :
      hubs \in HubLists \cup
                { <<HubVNetConfig("hub1", "10.0.0.4"), HubVNetConfig("hub2", "nva")>>,
                  <<HubVNetConfig("hub1", "10.0.0")>> },
      subs \in {{}, {"sub-a"}, {"sub-a", "sub-b"}},
      cidrsA \in CIDRLists, cidrsB \in CIDRLists }

\* the segments of the generated resource IDs
IDSegments == {"resourceGroups", "rg1", ""}

\* every resource ID "/k1/v1/.../kn/vn" of at most MaxPairs pairs
GeneratedIDs ==
    UNION {{<<"">> \o t : t \in [1..(2 * n) -> IDSegments]} : n \in 0..MaxPairs}

\* One subscription whose one network has any of the generated IDs; its
\* subnet, where the ID names the resource group rg1, has no route table.
ResourceIDStarts ==
    { [config |->
          Config(<<HubVNetConfig("hub1", "10.0.0.4")>>,
                 [s \in {"sub-a"} |->
                     SubscriptionConfig(<<"10.0.0.0/16">>, "hub1", TRUE, FALSE)],
                 TRUE),
       vnetPages |->
          [s \in {"sub-a"} |->
              << <<VirtualNetwork(id, "vnet1", <<HubNetwork("hub1")>>)>> >>],
       subnetPages |->
          [k \in {<<"sub-a", "rg1", "vnet1">>} |->
              << <<Subnet("subnetA", NilRef)>> >>],
       routeTables |-> << >>] : id \in GeneratedIDs }

\* the states of the configuration file
Files == {"ok", "missing", "malformed"}

\* settings of the environment variables
Environs ==
    { NoEnviron,
      [NoEnviron EXCEPT !["FEATURE_ROUTING_ENFORCEMENT"] = "TRUE"],
      [NoEnviron EXCEPT !["FEATURE_ROUTING_ENFORCEMENT"] = "yes",
                        !["API_PORT"] = "8443"],
      [NoEnviron EXCEPT !["API_PORT"] = "http"],
      [NoEnviron EXCEPT !["AZURE_SUBSCRIPTION_ID"] = "sub-9",
                        !["FEATURE_ROUTING_ENFORCEMENT"] = "true",
                        !["API_PORT"] = "80a",
                        !["LOGGING_LEVEL"] = "debug"],
      [NoEnviron EXCEPT !["AZURE_TENANT_ID"] = "tenant-1",
                        !["AZURE_CLIENT_ID"] = "client-1",
                        !["AZURE_SUBSCRIPTION_ID"] = "sub-9",
                        !["FEATURE_IPAM_ENFORCEMENT"] = "True",
                        !["FEATURE_PEERING_ENFORCEMENT"] = "FALSE",
                        !["FEATURE_COMPLIANCE_SCANNING"] = "true",
                        !["FEATURE_AUTO_REMEDIATION"] = "1",
                        !["API_LISTEN_ADDRESS"] = "127.0.0.1",
                        !["API_PORT"] = "0",
                        !["LOGGING_LEVEL"] = "debug",
                        !["LOGGING_FORMAT"] = "json"] }

\* Where a behaviour starts: an environment with its configuration in a
\* readable file and no override, or a configuration of ConfigStarts in any
\* state of the file under any of the settings.
Starts ==
    { [start |-> st, file |-> "ok", environ |-> NoEnviron] :
        st \in SingleSubnetStarts \cup TwoSubscriptionStarts \cup ResourceIDStarts }
    \cup
    { [start |-> st, file |-> f, environ |-> e] :
        st \in ConfigStarts, f \in Files, e \in Environs }

(***************************************************************************)
(* State.                                                                  *)
(***************************************************************************)
VARIABLES
    os,              \* the configuration file and the environment variables
    config,          \* cfg in LoadConfig, then e.config
    loaded,          \* the *Config LoadConfig returned, NilRef for nil
    ctxDone,         \* the context of the run is cancelled
    failed,          \* create-or-update operations that failed after they started
    isolated,        \* subscriptions of this run for which subnet isolation started
    vnetPages,       \* Azure: subscription -> pages of virtual networks
    subnetPages,     \* Azure: <<subscription, group, network>> -> pages of subnets
    routeTables,     \* Azure: <<subscription, group, table>> -> pages of routes
    subscriptionID,  \* ClientFactory.subscriptionID
    pc,              \* where the program is
    runs,            \* EnforceAll invocations so far
    ret,             \* the error EnforceAll (or LoadConfig) returned
    frameAll,        \* EnforceAll: remaining map keys, subID, hubCFG
    frameSub,        \* enforceNVARouting: vnetsClient, pager, rest of page.Value
    frameVNet,       \* enforceNVARoutingForVNet: resourceGroup, vnetName, subnetsClient, pager, rest of page.Value
    frameSubnet,     \* the subnet loop body: subnet, rtResourceGroup, rtName, routesClient, routePager, the pages of routes received, the two flags
    calls,           \* the calls of this run into Azure, in order
    stdout,          \* the lines this run printed
    inflight,        \* create-or-update operations started and not yet completed
    returned,        \* per finished run: its error, the map keys the range had not
                     \* reached, and the route tables at its return
    initialTables    \* the route tables as they were before the first run

vars == <<os, config, loaded, ctxDone, failed, isolated, vnetPages,
          subnetPages, routeTables, subscriptionID, pc, runs,
          ret, frameAll, frameSub, frameVNet, frameSubnet, calls, stdout,
          inflight, returned, initialTables>>

\* what no step of a run of EnforceAll changes
env == <<os, config, loaded, vnetPages, subnetPages, initialTables>>

\* the frames of functions that are not running
NoFrameAll == [remaining |-> {}, subID |-> "", hubCFG |-> HubVNetConfig("", "")]
NoFrameSub == [vnetsClient |-> "", pager |-> 0, page |-> << >>]
NoFrameVNet ==
    [resourceGroup |-> "", vnetName |-> "", subnetsClient |-> "", pager |-> 0,
     page |-> << >>]
NoFrameSubnet ==
    [subnet |-> "", rtResourceGroup |-> "", rtName |-> "", routesClient |-> "",
     routePager |-> 0, listed |-> << >>, defaultRouteExists |-> FALSE,
     defaultRouteCorrect |-> FALSE]

\* LoadConfig is about to read the file; there is no factory yet.
Init ==
    /\ \E st \in Starts :
          /\ os = OS(st.file, st.start.config, st.environ)
          /\ vnetPages = st.start.vnetPages
          /\ subnetPages = st.start.subnetPages
          /\ routeTables = st.start.routeTables
          /\ initialTables = st.start.routeTables
    /\ config = ZeroConfig
    /\ loaded = NilRef
    /\ ctxDone = FALSE
    /\ failed = {}
    /\ isolated = {}
    /\ subscriptionID = ""
    /\ pc = "read"
    /\ runs = 0
    /\ ret = NoError
    /\ frameAll = NoFrameAll
    /\ frameSub = NoFrameSub
    /\ frameVNet = NoFrameVNet
    /\ frameSubnet = NoFrameSubnet
    /\ calls = << >>
    /\ stdout = << >>
    /\ inflight = << >>
    /\ returned = << >>

(***************************************************************************)
(* Errors.                                                                 *)
(***************************************************************************)
\* fmt.Errorf("...: %w", err): the message, its values, then the wrapped error
Wrap(msg, args, err) == [msg |-> msg, args |-> args \o <<err.msg>> \o err.args]

\* The classes of error an Azure call returns: transient (network, timeout,
\* rate limit) or permanent (bad request, not found, authorization).
ProviderErrors == {Errorf("transient", << >>), Errorf("permanent", << >>)}

\* The errors a call made with ctx can return (routing.go:76, 108, 140, 185):
\* those of Azure, and under a cancelled context the context's error, which
\* the client returns without sending the request.
CallErrors(done) ==
    IF done THEN {Errorf("context canceled", << >>)} ELSE ProviderErrors

\* armnetwork.New...Client failing (part_001:73-76, 82-85, 100-103)
ClientError(what) == Errorf(what, << >>)

\* return err from EnforceAll with those map keys not reached by the range:
\* every frame is popped.
ReturnWith(err, unvisited) ==
    /\ pc' = "returned"
    /\ ret' = err
    /\ frameAll' = NoFrameAll
    /\ frameSub' = NoFrameSub
    /\ frameVNet' = NoFrameVNet
    /\ frameSubnet' = NoFrameSubnet
    /\ returned' = Append(returned, [err |-> err, unvisited |-> unvisited,
                                     routeTables |-> routeTables])

\* return err from inside an iteration of the range
Return(err) == ReturnWith(err, frameAll.remaining)

\* the error of enforceNVARouting, were EnforceAll to go on after it
IgnoreNVARoutingError(err) ==
    /\ pc' = IF config.Subscriptions[frameAll.subID].SubnetToSubnetDeny
             THEN "isolation" ELSE "range"
    /\ frameSub' = NoFrameSub
    /\ frameVNet' = NoFrameVNet
    /\ frameSubnet' = NoFrameSubnet
    /\ UNCHANGED <<ret, frameAll, returned>>

\* routing.go:51, the error of enforceNVARouting as EnforceAll returns it
ReturnNVARoutingError(err) ==
    Return(Wrap("failed to enforce NVA routing for subscription",
                <<frameAll.subID>>, err))

(***************************************************************************)
(* LoadConfig's last step, and EnforceAll.                                 *)
(***************************************************************************)
\* what the steps of LoadConfig and the construction of the factory leave
\* as it is
run == <<os, ctxDone, failed, isolated, vnetPages, subnetPages, initialTables,
         routeTables, runs, frameAll, frameSub, frameVNet, frameSubnet, calls,
         stdout, inflight, returned>>

\* part_002:46-58, the error of loadFromFile for that state of the file
loadFromFile(file) ==
    CASE file = "missing" ->
            Wrap("error reading config file", << >>,
                 Errorf("no such file or directory", << >>))
      [] file = "malformed" ->
            Wrap("error parsing config file", << >>,
                 Errorf("invalid character", << >>))
      [] OTHER -> NoError

\* part_002:29-32: the file is read and parsed into cfg.
LoadConfigRead ==
    /\ pc = "read"
    /\ IF loadFromFile(os.file) # NoError
       THEN /\ pc' = "rejected"
            /\ ret' = Wrap("failed to load config from file", << >>,
                           loadFromFile(os.file))
            /\ UNCHANGED config
       ELSE /\ pc' = "override"
            /\ config' = os.data
            /\ UNCHANGED ret
    /\ UNCHANGED <<run, loaded, subscriptionID>>

\* part_002:34-36: the overrides are applied to cfg.
LoadConfigOverride ==
    /\ pc = "override"
    /\ LET o == overrideFromEnv(config, os.environ)
       IN  /\ config' = o.cfg
           /\ IF o.err # NoError
              THEN /\ pc' = "rejected"
                   /\ ret' = Wrap("failed to apply environment overrides",
                                  << >>, o.err)
              ELSE /\ pc' = "load"
                   /\ UNCHANGED ret
    /\ UNCHANGED <<run, loaded, subscriptionID>>

\* part_002:38-42: the configuration is validated and returned; EnforceAll
\* is only ever given a configuration that passed.
LoadConfigValidate ==
    /\ pc = "load"
    /\ \E err \in Validate(config) :
          IF err # NoError
          THEN /\ pc' = "rejected"
               /\ ret' = Wrap("configuration validation failed", << >>, err)
               /\ UNCHANGED loaded
          ELSE /\ pc' = "loaded"
               /\ ret' = NoError
               /\ loaded' = config
    /\ UNCHANGED <<run, config, subscriptionID>>

\* part_001:23-54 and routing.go:20-25: the factory is made from the loaded
\* configuration and starts with its subscription; the enforcer is made.
NewClientFactory ==
    /\ pc = "loaded"
    /\ subscriptionID' = loaded.Azure.SubscriptionID
    /\ pc' = "idle"
    /\ UNCHANGED <<run, config, loaded, ret>>

\* routing.go:38-43: the index of the first hub of that name, 0 for none
RECURSIVE FindHub(_, _, _)
FindHub(hubs, name, i) ==
    IF i > Len(hubs) THEN 0
    ELSE IF hubs[i].Name = name THEN i
    ELSE FindHub(hubs, name, i + 1)

\* routing.go:28-29: EnforceAll is entered; the range over the map begins.
EnterEnforceAll ==
    /\ runs' = runs + 1
    /\ pc' = "range"
    /\ ret' = NoError
    /\ frameAll' = [NoFrameAll EXCEPT !.remaining = DOMAIN config.Subscriptions]
    /\ calls' = << >>
    /\ stdout' = << >>
    /\ isolated' = {}
    /\ UNCHANGED <<env, ctxDone, failed, routeTables, subscriptionID, frameSub,
                   frameVNet, frameSubnet, inflight, returned>>

\* EnforceAll is called on the enforcer made from the validated configuration.
EnforceAll ==
    /\ pc = "idle"
    /\ EnterEnforceAll

\* EnforceAll is called again after it returned.
EnforceAllAgain ==
    /\ pc = "returned"
    /\ runs < MaxRuns
    /\ EnterEnforceAll

\* routing.go:55-60: after the NVA routing step of a subscription, subnet
\* isolation if the subscription asks for it, else the next subscription.
AfterNVARouting(subCFG) ==
    IF subCFG.SubnetToSubnetDeny THEN "isolation" ELSE "range"

\* the feature test, were it left out
RoutingEnforcementAssumed(c) == TRUE

\* routing.go:35, routing enforcement is enabled
RoutingEnforcementEnabled(c) == c.Features.RoutingEnforcement

\* the setter, were it to keep the ID the factory has
SetSubscriptionIDKept(id) == subscriptionID' = subscriptionID

\* part_001:67-69, ClientFactory.SetSubscriptionID
SetSubscriptionID(id) == subscriptionID' = id

\* routing.go:29-53 and 66-74: one iteration of the range over the map, in
\* whatever order Go yields the keys, up to the first call it makes.
RangeSubscriptions ==
    /\ pc = "range"
    /\ \E subID \in frameAll.remaining :
        LET subCFG == config.Subscriptions[subID]
            h == FindHub(config.Hubs, subCFG.HubName, 1)
            next == [frameAll EXCEPT !.remaining = @ \ {subID}, !.subID = subID]
        IN  /\ SetSubscriptionID(subID)
            /\ IF ~RoutingEnforcementEnabled(config)
               THEN /\ pc' = "range"
                    /\ frameAll' = next
                    /\ UNCHANGED <<ret, frameSub, frameVNet, frameSubnet, returned>>
               ELSE IF h = 0
               THEN ReturnWith(Errorf("hub not found for subscription",
                                      <<subCFG.HubName, subID>>),
                               next.remaining)
               ELSE IF subCFG.RequireNVARouting
               THEN \E created \in BOOLEAN :
                      IF created
                      THEN /\ pc' = "vnets"
                           /\ frameAll' = [next EXCEPT !.hubCFG = config.Hubs[h]]
                           /\ frameSub' = [vnetsClient |-> subscriptionID',
                                           pager |-> 1, page |-> << >>]
                           /\ UNCHANGED <<ret, frameVNet, frameSubnet, returned>>
                      ELSE ReturnWith(Wrap(
                               "failed to enforce NVA routing for subscription",
                               <<subID>>,
                               ClientError("failed to create azure virtual networks client")),
                               next.remaining)
               ELSE /\ pc' = AfterNVARouting(subCFG)
                    /\ frameAll' = [next EXCEPT !.hubCFG = config.Hubs[h]]
                    /\ UNCHANGED <<ret, frameSub, frameVNet, frameSubnet, returned>>
    /\ UNCHANGED <<env, ctxDone, failed, isolated,
                   routeTables, runs, calls, stdout, inflight>>

\* routing.go:62: the range is over.
ReturnNil ==
    /\ pc = "range"
    /\ frameAll.remaining = {}
    /\ Return(NoError)
    /\ UNCHANGED <<env, ctxDone, failed, isolated,
                   routeTables, subscriptionID, runs, calls, stdout,
                   inflight>>

(***************************************************************************)
(* enforceNVARouting and enforceNVARoutingForVNet.                         *)
(***************************************************************************)
\* a call into Azure, as logged: the operation, the subscription its client
\* is bound to, what it addresses, the page asked for or the payload sent,
\* and the error it returned
Call(op, sub, target, arg, err) ==
    [op |-> op, sub |-> sub, target |-> target, arg |-> arg, err |-> err.msg]

\* the pages a listing of pages[key] yields; none for an unknown resource
PagesOf(pages, key) == IF key \in DOMAIN pages THEN pages[key] ELSE << >>

\* pager.More(): true before the first page, then while a next page exists
More(pager, listing) == pager = 1 \/ pager <= Len(listing)

\* routing.go:75-87 and 55-60: the next page of virtual networks, or the end
\* of enforceNVARouting.
NextVNetPage ==
    /\ pc = "vnets"
    /\ LET listing == PagesOf(vnetPages, frameSub.vnetsClient)
       IN  IF More(frameSub.pager, listing)
           THEN \/ \E err \in CallErrors(ctxDone) :
                     /\ calls' = Append(calls, Call("ListAll", frameSub.vnetsClient,
                                    << >>, <<frameSub.pager>>, err))
                     /\ ReturnNVARoutingError(
                            Wrap("failed to list virtual networks", << >>, err))
                \/ /\ ~ctxDone
                   /\ frameSub.pager <= Len(listing)
                   /\ calls' = Append(calls, Call("ListAll", frameSub.vnetsClient,
                                  << >>, <<frameSub.pager>>, NoError))
                   /\ frameSub' = [frameSub EXCEPT
                                      !.pager = @ + 1,
                                      !.page = listing[frameSub.pager]]
                   /\ pc' = "vnet"
                   /\ UNCHANGED <<ret, frameAll, frameVNet, frameSubnet, returned>>
           ELSE /\ pc' = AfterNVARouting(config.Subscriptions[frameAll.subID])
                /\ frameSub' = NoFrameSub
                /\ UNCHANGED <<ret, frameAll, frameVNet, frameSubnet, calls,
                               returned>>
    /\ UNCHANGED <<env, ctxDone, failed, isolated,
                   routeTables, subscriptionID, runs, stdout, inflight>>

\* routing.go:82-106: the next virtual network of the page, or the end of the
\* page.
EnforceVNet ==
    /\ pc = "vnet"
    /\ IF frameSub.page = << >>
       THEN /\ pc' = "vnets"
            /\ UNCHANGED <<ret, frameAll, frameSub, frameVNet, frameSubnet,
                           returned>>
       ELSE LET vnet == Head(frameSub.page)
                parts == extractResourceIDParts(vnet.ID)
            IN  IF MapGet(parts, "resourceGroups") = ""
                THEN ReturnNVARoutingError(
                         Errorf("invalid VNet ID format", vnet.ID))
                ELSE \E created \in BOOLEAN :
                       IF created
                       THEN /\ pc' = "subnets"
                            /\ frameSub' = [frameSub EXCEPT !.page = Tail(@)]
                            /\ frameVNet' =
                                  [resourceGroup |-> MapGet(parts, "resourceGroups"),
                                   vnetName |-> vnet.Name,
                                   subnetsClient |-> subscriptionID,
                                   pager |-> 1, page |-> << >>]
                            /\ UNCHANGED <<ret, frameAll, frameSubnet, returned>>
                       ELSE ReturnNVARoutingError(
                                ClientError("failed to create azure subnets client"))
    /\ UNCHANGED <<env, ctxDone, failed, isolated,
                   routeTables, subscriptionID, runs, calls, stdout,
                   inflight>>

\* routing.go:107-111 and 193: the next page of subnets, or the end of
\* enforceNVARoutingForVNet.
NextSubnetPage ==
    /\ pc = "subnets"
    /\ LET key == <<frameVNet.subnetsClient, frameVNet.resourceGroup,
                    frameVNet.vnetName>>
           listing == PagesOf(subnetPages, key)
       IN  IF More(frameVNet.pager, listing)
           THEN \/ \E err \in CallErrors(ctxDone) :
                     /\ calls' = Append(calls, Call("ListSubnets", key[1],
                                    Tail(key), <<frameVNet.pager>>, err))
                     /\ ReturnNVARoutingError(
                            Wrap("failed to list subnets", << >>, err))
                \/ /\ ~ctxDone
                   /\ frameVNet.pager <= Len(listing)
                   /\ calls' = Append(calls, Call("ListSubnets", key[1],
                                  Tail(key), <<frameVNet.pager>>, NoError))
                   /\ frameVNet' = [frameVNet EXCEPT
                                       !.pager = @ + 1,
                                       !.page = listing[frameVNet.pager]]
                   /\ pc' = "subnet"
                   /\ UNCHANGED <<ret, frameAll, frameSub, frameSubnet, returned>>
           ELSE /\ pc' = "vnet"
                /\ frameVNet' = NoFrameVNet
                /\ UNCHANGED <<ret, frameAll, frameSub, frameSubnet, calls,
                               returned>>
    /\ UNCHANGED <<env, ctxDone, failed, isolated,
                   routeTables, subscriptionID, runs, stdout, inflight>>

\* the test for a missing route table, were it left out
HasNoRouteTableIgnored(subnet) == FALSE

\* routing.go:116, the subnet has no route table
HasNoRouteTable(subnet) == subnet.RouteTable = NilRef

\* routing.go:113-138: the next subnet of the page, or the end of the page.
EnforceSubnet ==
    /\ pc = "subnet"
    /\ IF frameVNet.page = << >>
       THEN /\ pc' = "subnets"
            /\ UNCHANGED <<ret, frameAll, frameSub, frameVNet, frameSubnet,
                           stdout, returned>>
       ELSE LET subnet == Head(frameVNet.page)
                rtParts == extractResourceIDParts(subnet.RouteTable)
            IN  IF HasNoRouteTable(subnet)
                THEN /\ stdout' = Append(stdout,
                            <<"WARNING: No route table found for subnet:",
                              subnet.Name>>)
                     /\ frameVNet' = [frameVNet EXCEPT !.page = Tail(@)]
                     /\ UNCHANGED <<pc, ret, frameAll, frameSub, frameSubnet,
                                    returned>>
                ELSE \E created \in BOOLEAN :
                       IF created
                       THEN /\ pc' = "routes"
                            /\ frameVNet' = [frameVNet EXCEPT !.page = Tail(@)]
                            /\ frameSubnet' =
                                  [subnet |-> subnet.Name,
                                   rtResourceGroup |-> MapGet(rtParts, "resourceGroups"),
                                   rtName |-> MapGet(rtParts, "routeTables"),
                                   routesClient |-> subscriptionID,
                                   routePager |-> 1,
                                   listed |-> << >>,
                                   defaultRouteExists |-> FALSE,
                                   defaultRouteCorrect |-> FALSE]
                            /\ UNCHANGED <<ret, frameAll, frameSub, stdout,
                                           returned>>
                       ELSE /\ ReturnNVARoutingError(
                                   ClientError("failed to create azure routes client"))
                            /\ UNCHANGED stdout
    /\ UNCHANGED <<env, ctxDone, failed, isolated,
                   routeTables, subscriptionID, runs, calls, inflight>>

(***************************************************************************)
(* The scan of a route table and the default route.                        *)
(***************************************************************************)
\* the test for a default route entry, were it to compare with "0.0.0.0"
IsDefaultRouteEntryNoMask(route) ==
    route.AddressPrefix # NilPtr /\ route.AddressPrefix = "0.0.0.0"

\* routing.go:147, the route is a default route entry
IsDefaultRouteEntry(route) ==
    route.AddressPrefix # NilPtr /\ route.AddressPrefix = DefaultPrefix

\* the test, were it to look at the type of the next hop alone
PointsToNVAByType(route, nvaNextHop) ==
    /\ route.NextHopType # NilPtr
    /\ route.NextHopType = RouteNextHopTypeVirtualAppliance

\* routing.go:151-152, the entry points to the NVA
PointsToNVA(route, nvaNextHop) ==
    /\ route.NextHopType # NilPtr
    /\ route.NextHopType = RouteNextHopTypeVirtualAppliance
    /\ route.NextHopIPAddress # NilPtr
    /\ route.NextHopIPAddress = nvaNextHop

\* routing.go:145-160, the loop over one page of routes from its i-th route:
\* the two flags after it.  The break statements leave this loop only.
RECURSIVE ScanRoutes(_, _, _, _)
ScanRoutes(page, i, flags, nvaNextHop) ==
    IF i > Len(page) THEN flags
    ELSE LET route == page[i]
         IN  IF IsDefaultRouteEntry(route)
             THEN IF PointsToNVA(route, nvaNextHop)
                  THEN [defaultRouteExists |-> TRUE, defaultRouteCorrect |-> TRUE]
                  ELSE [defaultRouteExists |-> TRUE,
                        defaultRouteCorrect |-> flags.defaultRouteCorrect]
             ELSE ScanRoutes(page, i + 1, flags, nvaNextHop)

\* the route table the routes client of the subnet loop addresses
RouteTableKey ==
    <<frameSubnet.routesClient, frameSubnet.rtResourceGroup, frameSubnet.rtName>>

\* routing.go:139-161: the next page of routes is fetched and scanned.
NextRoutePage ==
    /\ pc = "routes"
    /\ LET listing == PagesOf(routeTables, RouteTableKey)
       IN  /\ More(frameSubnet.routePager, listing)
           /\ \/ \E err \in CallErrors(ctxDone) :
                    /\ calls' = Append(calls, Call("ListRoutes", RouteTableKey[1],
                                   Tail(RouteTableKey), <<frameSubnet.routePager>>,
                                   err))
                    /\ ReturnNVARoutingError(
                           Wrap("failed to list routes", << >>, err))
              \/ /\ ~ctxDone
                 /\ frameSubnet.routePager <= Len(listing)
                 /\ calls' = Append(calls, Call("ListRoutes", RouteTableKey[1],
                                Tail(RouteTableKey), <<frameSubnet.routePager>>,
                                NoError))
                 /\ LET flags == ScanRoutes(
                                    listing[frameSubnet.routePager], 1,
                                    [defaultRouteExists |-> frameSubnet.defaultRouteExists,
                                     defaultRouteCorrect |-> frameSubnet.defaultRouteCorrect],
                                    frameAll.hubCFG.NVANextHop)
                    IN  frameSubnet' =
                           [frameSubnet EXCEPT
                               !.routePager = @ + 1,
                               !.listed = Append(@, listing[frameSubnet.routePager]),
                               !.defaultRouteExists = flags.defaultRouteExists,
                               !.defaultRouteCorrect = flags.defaultRouteCorrect]
                 /\ UNCHANGED <<pc, ret, frameAll, frameSub, frameVNet, returned>>
    /\ UNCHANGED <<env, ctxDone, failed, isolated,
                   routeTables, subscriptionID, runs, stdout, inflight>>

\* routing.go:169-182, the route sent: its name and its properties
DefaultRoute(nvaNH) ==
    Route(DefaultRouteName, DefaultPrefix, RouteNextHopTypeVirtualAppliance, nvaNH)

\* the condition, were it to look at defaultRouteExists alone
DefaultRouteMissingOnly(defaultRouteExists, defaultRouteCorrect) ==
    ~defaultRouteExists

\* routing.go:165, the condition under which the default route is written
DefaultRouteMissingOrWrong(defaultRouteExists, defaultRouteCorrect) ==
    ~defaultRouteExists \/ ~defaultRouteCorrect

\* routing.go:163-189: after the last page, the default route is created or
\* updated unless the scan found a correct one.  BeginCreateOrUpdate starts the
\* operation; the poller it returns is dropped.
EnsureDefaultRoute ==
    /\ pc = "routes"
    /\ ~More(frameSubnet.routePager, PagesOf(routeTables, RouteTableKey))
    /\ IF DefaultRouteMissingOrWrong(frameSubnet.defaultRouteExists,
                                     frameSubnet.defaultRouteCorrect)
       THEN IF frameAll.hubCFG.NVANextHop = ""
            THEN /\ ReturnNVARoutingError(
                        Errorf("no NVA IPs defined for hub", <<frameAll.hubCFG.Name>>))
                 /\ UNCHANGED <<calls, inflight>>
            ELSE LET route == DefaultRoute(frameAll.hubCFG.NVANextHop)
                     call(err) ==
                        Call("CreateOrUpdate", RouteTableKey[1],
                             Tail(RouteTableKey) \o <<route.Name>>,
                             <<route.AddressPrefix, route.NextHopType,
                               route.NextHopIPAddress>>, err)
                 IN  \/ \E err \in CallErrors(ctxDone) :
                          /\ calls' = Append(calls, call(err))
                          /\ ReturnNVARoutingError(
                                 Wrap("failed to create or update default route for subnet",
                                      <<frameSubnet.subnet>>, err))
                          /\ UNCHANGED inflight
                     \/ /\ ~ctxDone
                        /\ calls' = Append(calls, call(NoError))
                        /\ inflight' = Append(inflight,
                               [table |-> RouteTableKey, route |-> route])
                        /\ pc' = "subnet"
                        /\ frameSubnet' = NoFrameSubnet
                        /\ UNCHANGED <<ret, frameAll, frameSub, frameVNet, returned>>
       ELSE /\ pc' = "subnet"
            /\ frameSubnet' = NoFrameSubnet
            /\ UNCHANGED <<ret, frameAll, frameSub, frameVNet, calls, inflight,
                           returned>>
    /\ UNCHANGED <<env, ctxDone, failed, isolated,
                   routeTables, subscriptionID, runs, stdout>>

\* routing.go:55-59: enforceSubnetIsolation is called and returns nil or an
\* error.  Its body is not in the repository's sources; it is taken to make
\* no call of its own (spec.md 4.3: the isolation diff "degrades to the
\* routing diff").
enforceSubnetIsolation ==
    /\ pc = "isolation"
    /\ isolated' = isolated \cup {frameAll.subID}
    /\ \/ /\ pc' = "range"
          /\ UNCHANGED <<ret, frameAll, frameSub, frameVNet, frameSubnet, returned>>
       \/ \E err \in ProviderErrors :
             Return(Wrap("failed to enforce subnet isolation for subscription",
                         <<frameAll.subID>>, err))
    /\ UNCHANGED <<env, ctxDone, failed, routeTables, subscriptionID, runs,
                   calls, stdout, inflight>>

(***************************************************************************)
(* Azure's side of a create-or-update.                                     *)
(***************************************************************************)
\* the index of the route of that name on the page, 0 for none
RECURSIVE IndexOfName(_, _, _)
IndexOfName(page, name, i) ==
    IF i > Len(page) THEN 0
    ELSE IF page[i].Name = name THEN i
    ELSE IndexOfName(page, name, i + 1)

\* PUT .../routeTables/{table}/routes/{name}: the route of that name is
\* replaced where it is listed; a new name is listed last.
PutRoute(listing, route) ==
    IF \E p \in DOMAIN listing : IndexOfName(listing[p], route.Name, 1) # 0
    THEN [p \in DOMAIN listing |->
            [i \in DOMAIN listing[p] |->
                IF listing[p][i].Name = route.Name THEN route ELSE listing[p][i]]]
    ELSE [listing EXCEPT ![Len(listing)] = Append(@, route)]

\* the sequence without its i-th element
Remove(seq, i) == SubSeq(seq, 1, i - 1) \o SubSeq(seq, i + 1, Len(seq))

\* A started create-or-update completes: the route is written.
CompleteCreateOrUpdate ==
    /\ \E i \in DOMAIN inflight :
          /\ inflight' = Remove(inflight, i)
          /\ routeTables' =
                [routeTables EXCEPT ![inflight[i].table] =
                    PutRoute(@, inflight[i].route)]
    /\ UNCHANGED <<env, ctxDone, failed, isolated,
                   subscriptionID, pc, runs, ret, frameAll, frameSub,
                   frameVNet, frameSubnet, calls, stdout, returned>>

\* A started create-or-update fails after BeginCreateOrUpdate returned: the
\* table is left as it was, and nothing polls for the outcome.
FailCreateOrUpdate ==
    /\ \E i \in DOMAIN inflight :
          /\ inflight' = Remove(inflight, i)
          /\ failed' = failed \cup {inflight[i]}
    /\ UNCHANGED <<env, ctxDone, isolated, routeTables, subscriptionID, pc,
                   runs, ret, frameAll, frameSub, frameVNet, frameSubnet, calls,
                   stdout, returned>>

\* routing.go:28, ctx: the context EnforceAll was given is cancelled while
\* EnforceAll runs.
Cancel ==
    /\ pc \in {"range", "vnets", "vnet", "subnets", "subnet", "routes",
               "isolation"}
    /\ ~ctxDone
    /\ ctxDone' = TRUE
    /\ UNCHANGED <<env, failed, isolated, routeTables, subscriptionID, pc, runs,
                   ret, frameAll, frameSub, frameVNet, frameSubnet, calls,
                   stdout, inflight, returned>>

(***************************************************************************)
(* The specifications.                                                     *)
(***************************************************************************)
\* the steps of the program
Program ==
    \/ LoadConfigRead
    \/ LoadConfigOverride
    \/ LoadConfigValidate
    \/ NewClientFactory
    \/ EnforceAll
    \/ RangeSubscriptions
    \/ ReturnNil
    \/ NextVNetPage
    \/ EnforceVNet
    \/ NextSubnetPage
    \/ EnforceSubnet
    \/ NextRoutePage
    \/ EnsureDefaultRoute
    \/ enforceSubnetIsolation

\* One run of EnforceAll; the operations it starts complete, or fail, at any
\* later moment.
Next ==
    \/ Program
    \/ Cancel
    \/ CompleteCreateOrUpdate
    \/ FailCreateOrUpdate

Spec == Init /\ [][Next]_vars

\* Successive runs of EnforceAll in which every create-or-update is applied
\* before the program's next step, and nothing else changes the environment.
NextApplied ==
    \/ inflight = << >> /\ Program
    \/ inflight = << >> /\ EnforceAllAgain
    \/ CompleteCreateOrUpdate

SpecApplied == Init /\ [][NextApplied]_vars

(***************************************************************************)
(* Vocabulary of the properties.  It is stated from the environment and    *)
(* the log of calls, not from the operators of the program above.          *)
(***************************************************************************)
\* the routes of a listing in listing order, page after page
RECURSIVE Flatten(_)
Flatten(pages) == IF pages = << >> THEN << >> ELSE Head(pages) \o Flatten(Tail(pages))

\* positions of the routes with prefix 0.0.0.0/0
DefaultsOf(routes) ==
    {i \in DOMAIN routes : routes[i].AddressPrefix = "0.0.0.0/0"}

\* a default route through the virtual appliance at that address
IsCompliant(route, nva) ==
    /\ route.AddressPrefix = "0.0.0.0/0"
    /\ route.NextHopType = "VirtualAppliance"
    /\ route.NextHopIPAddress = nva

\* the hub a subscription names: the first of that name in the configuration
HubOf(sub) ==
    LET name == config.Subscriptions[sub].HubName
        at == {i \in DOMAIN config.Hubs : config.Hubs[i].Name = name}
    IN  config.Hubs[CHOOSE i \in at : \A j \in at : i <= j]

\* every subnet Azure holds, with its subscription
AllSubnets ==
    UNION {UNION {{[sub |-> k[1], subnet |-> subnetPages[k][p][i]] :
                      i \in DOMAIN subnetPages[k][p]} :
                  p \in DOMAIN subnetPages[k]} :
           k \in DOMAIN subnetPages}

\* the route table of a subnet as <<subscription, resource group, name>>
TableOf(s) == <<s.sub, s.subnet.RouteTable[5], s.subnet.RouteTable[9]>>

\* the subnet the program is scanning the routes of
ScannedSubnet ==
    CHOOSE s \in AllSubnets :
        s.sub = frameAll.subID /\ s.subnet.Name = frameSubnet.subnet

\* This step ends the pass over a subnet's routes other than by a failed
\* listing: the program leaves the scan having received every page.
PassDecides ==
    /\ pc = "routes"
    /\ pc' # "routes"
    /\ ~(/\ Len(calls') = Len(calls) + 1
         /\ calls'[Len(calls')].op = "ListRoutes")

\* This step issues exactly one call, the create-or-update of the reserved
\* default route in the scanned subnet's table towards that address.
IssuesDefaultRoute(nva) ==
    /\ Len(calls') = Len(calls) + 1
    /\ SubSeq(calls', 1, Len(calls)) = calls
    /\ LET c == calls'[Len(calls')]
       IN  /\ c.op = "CreateOrUpdate"
           /\ c.sub = TableOf(ScannedSubnet)[1]
           /\ c.target = Tail(TableOf(ScannedSubnet)) \o <<"DefaultRoute-To-NVA">>
           /\ c.arg = <<"0.0.0.0/0", "VirtualAppliance", nva>>

\* the create-or-update calls in the log
CreateCalls == {i \in DOMAIN calls : calls[i].op = "CreateOrUpdate"}

(***************************************************************************)
(* C1                                                                      *)
(***************************************************************************)
\* no route with the default prefix, or none of them points to the address
DefaultMissingOrWrong(routes, nva) ==
    \A i \in DefaultsOf(routes) : ~IsCompliant(routes[i], nva)

\* C1 as claimed: whenever the pass over a subnet has listed a route table
\* whose default route is missing or does not point to the hub's NVA, it
\* issues exactly one create-or-update of "DefaultRoute-To-NVA", 0.0.0.0/0,
\* virtual appliance, the hub's NVANextHop, on that subnet's table.
C1_AsClaimed ==
    [][ (PassDecides
         /\ DefaultMissingOrWrong(Flatten(frameSubnet.listed),
                                  HubOf(frameAll.subID).NVANextHop))
        => IssuesDefaultRoute(HubOf(frameAll.subID).NVANextHop) ]_vars

\* C1 amended: the same, for a hub whose NVANextHop is not empty; with an
\* empty NVANextHop the pass issues no call and returns an error.
C1_DefaultRouteIssued ==
    [][ (PassDecides
         /\ DefaultMissingOrWrong(Flatten(frameSubnet.listed),
                                  HubOf(frameAll.subID).NVANextHop))
        => IF HubOf(frameAll.subID).NVANextHop # ""
           THEN IssuesDefaultRoute(HubOf(frameAll.subID).NVANextHop)
           ELSE calls' = calls /\ inflight' = inflight /\ pc' = "returned"
                /\ ret' # NoError ]_vars

\* C1 witness: a create-or-update was accepted for a table whose second route
\* was its only default route, through the Internet.
C1_Witness ==
    /\ pc = "subnet"
    /\ calls # << >>
    /\ LET c == calls[Len(calls)]
           t == Flatten(initialTables[<<c.sub, c.target[1], c.target[2]>>])
       IN  /\ c.op = "CreateOrUpdate"
           /\ c.err = ""
           /\ Len(t) = 2
           /\ DefaultsOf(t) = {2}
           /\ t[2].NextHopType = "Internet"

C5_FirstDefaultDecides ==
    [][ (PassDecides
         /\ HubOf(frameAll.subID).NVANextHop # ""
         /\ DefaultsOf(Flatten(frameSubnet.listed)) # {})
        => LET routes == Flatten(frameSubnet.listed)
               first == CHOOSE i \in DefaultsOf(routes) :
                            \A j \in DefaultsOf(routes) : i <= j
           IN  (Len(calls') = Len(calls) + 1)
                  <=> ~IsCompliant(routes[first], HubOf(frameAll.subID).NVANextHop)
      ]_vars

(***************************************************************************)
(* C6                                                                      *)
(***************************************************************************)
\* C6: the step of the subnet loop that meets a subnet without a route table
\* issues no call, starts no operation, returns no error and leaves the rest
\* of the page to be processed.
C6_NoRouteTableSkipped ==
    [][ (/\ pc = "subnet"
         /\ frameVNet.page # << >>
         /\ Head(frameVNet.page).RouteTable = << >>
         /\ frameVNet' # frameVNet)
        => (/\ calls' = calls
            /\ inflight' = inflight
            /\ pc' = "subnet"
            /\ ret' = NoError
            /\ returned' = returned
            /\ frameVNet' = [frameVNet EXCEPT !.page = Tail(frameVNet.page)]) ]_vars

\* C6 witness: in a network whose first subnet has no route table, the routes
\* of the second subnet's table were listed after the first was skipped.
C6_Witness ==
    /\ Len(stdout) = 1
    /\ stdout[1][2] = "subnetA"
    /\ \E i \in DOMAIN calls :
          /\ calls[i].op = "ListRoutes"
          /\ calls[i].target = <<"rg1", "rt1">>
    /\ \A i \in DOMAIN calls :
          calls[i].op \in {"ListRoutes", "CreateOrUpdate"}
             => calls[i].target[2] = "rt1" \/ calls[i].sub = "sub-b"

(***************************************************************************)
(* C3 and C4                                                               *)
(***************************************************************************)
\* the route tables that held at most one route with prefix 0.0.0.0/0 before
\* the first run
InitiallyUnique ==
    {k \in DOMAIN initialTables :
        Cardinality(DefaultsOf(Flatten(initialTables[k]))) <= 1}

\* C3 as claimed: when EnforceAll has returned nil twice in succession, every
\* create-or-update applied before the next step and nothing else changing the
\* environment, the route tables after the second run are those after the
\* first, and no table (of those that did not hold two to begin with) holds
\* two routes with prefix 0.0.0.0/0.
C3_Idempotent ==
    (/\ Len(returned) >= 2
     /\ returned[1].err = NoError
     /\ returned[2].err = NoError)
    => /\ returned[2].routeTables = returned[1].routeTables
       /\ \A k \in InitiallyUnique :
             Cardinality(DefaultsOf(Flatten(returned[2].routeTables[k]))) <= 1

\* the subnets routing enforcement manages: those with a route table, in a
\* subscription that requires NVA routing
ManagedSubnets ==
    {s \in AllSubnets :
        /\ s.sub \in DOMAIN config.Subscriptions
        /\ config.Subscriptions[s.sub].RequireNVARouting
        /\ s.subnet.RouteTable # << >>}

\* C4 as claimed: after EnforceAll returned nil with routing enforcement on
\* and every create-or-update applied, the table of every managed subnet holds
\* exactly one route with prefix 0.0.0.0/0, a virtual-appliance route to the
\* NVA address of the subscription's hub (stated for the tables that held at
\* most one such route to begin with).
C4_ExactlyOneDefaultRoute ==
    \A n \in DOMAIN returned :
        (returned[n].err = NoError /\ config.Features.RoutingEnforcement)
        => \A s \in ManagedSubnets :
              TableOf(s) \in InitiallyUnique
              => LET t == Flatten(returned[n].routeTables[TableOf(s)])
                 IN  /\ Cardinality(DefaultsOf(t)) = 1
                     /\ \A i \in DefaultsOf(t) :
                           IsCompliant(t[i], HubOf(s.sub).NVANextHop)

(***************************************************************************)
(* C7                                                                      *)
(***************************************************************************)
\* the error of a scope whose topology could not be fetched or whose hub
\* could not be resolved
IsScopeFailure(err) ==
    \/ err.msg = "hub not found for subscription"
    \/ /\ err.msg = "failed to enforce NVA routing for subscription"
       /\ err.args[2] \in {"failed to list virtual networks",
                           "failed to list subnets", "failed to list routes"}
       /\ err.args[Len(err.args)] = "permanent"

\* C7 as claimed: when the fetch of one scope fails permanently or its hub
\* cannot be resolved, every other configured scope is still processed in the
\* same run: the run leaves no subscription unvisited.
C7_OtherScopesProcessed ==
    \A n \in DOMAIN returned :
        IsScopeFailure(returned[n].err) => returned[n].unvisited = {}

(***************************************************************************)
(* C8                                                                      *)
(***************************************************************************)
\* some scope names a hub that is not configured
DanglingHubReference ==
    \E s \in DOMAIN config.Subscriptions :
        \A i \in DOMAIN config.Hubs :
            config.Hubs[i].Name # config.Subscriptions[s].HubName

\* C8 as claimed: with a scope that names a hub not configured, no list call
\* and no create-or-update call is issued for any scope.
C8_DanglingHubRejected == DanglingHubReference => calls = << >>

(***************************************************************************)
(* C9                                                                      *)
(***************************************************************************)
\* one of the three conditions under which Validate is to return an error
InvalidConfig(c) ==
    \/ \E s \in DOMAIN c.Subscriptions :
          \E i \in DOMAIN c.Subscriptions[s].AllowedCIDRs :
              ~ParseCIDR(c.Subscriptions[s].AllowedCIDRs[i])
    \/ c.Hubs = << >>
    \/ \E i \in DOMAIN c.Hubs :
          c.Hubs[i].NVANextHop # "" /\ ~ParseIP(c.Hubs[i].NVANextHop)

\* C9: Validate returns an error exactly when some allowed CIDR does not
\* parse, or no hub is defined, or some hub's non-empty NVA next hop is no IP
\* address, and it leaves the configuration as it was.
C9_Validate ==
    [][pc = "load" =>
          /\ (pc' = "rejected") <=> InvalidConfig(config)
          /\ (pc' # "rejected") => (pc' = "loaded" /\ ret' = NoError)
          /\ (pc' = "rejected") =>
                /\ ret'.msg = "configuration validation failed"
                /\ ret'.args[1] \in {"invalid CIDR in allowedIPRanges",
                                     "at least one hub configuration is required",
                                     "invalid NVA IP"}
          /\ config' = config]_vars

\* C9 witness: a configuration of two hubs whose CIDRs all parse was rejected
\* for the NVA address of its second hub.
C9_Witness ==
    /\ pc = "rejected"
    /\ Len(config.Hubs) = 2
    /\ ParseIP(config.Hubs[1].NVANextHop)
    /\ ret.args = <<"invalid NVA IP", config.Hubs[2].NVANextHop>>
    /\ \E s \in DOMAIN config.Subscriptions :
          config.Subscriptions[s].AllowedCIDRs # << >>

(***************************************************************************)
(* C10                                                                     *)
(***************************************************************************)
\* C10 as claimed: a run fails on a transient error of a create-or-update only
\* after that call was retried: the failed call is not the first attempt.
C10_TransientRetried ==
    (/\ pc = "returned"
     /\ ret.msg = "failed to enforce NVA routing for subscription"
     /\ ret.args[2] = "failed to create or update default route for subnet"
     /\ ret.args[Len(ret.args)] = "transient")
    => /\ Len(calls) >= 2
       /\ calls[Len(calls) - 1].op = "CreateOrUpdate"
       /\ calls[Len(calls) - 1].target = calls[Len(calls)].target

(***************************************************************************)
(* C11                                                                     *)
(***************************************************************************)
\* the route table a ListRoutes or CreateOrUpdate call addresses
CallTable(c) == <<c.sub, c.target[1], c.target[2]>>

\* C11 as claimed: a call that lists the routes of a table or starts a
\* create-or-update on it is made only when no create-or-update started
\* earlier on that table is still in flight.
C11_OneMutationPerTable ==
    [][ (/\ Len(calls') = Len(calls) + 1
         /\ calls'[Len(calls')].op \in {"ListRoutes", "CreateOrUpdate"})
        => \A i \in DOMAIN inflight :
              inflight[i].table # CallTable(calls'[Len(calls')]) ]_vars

(***************************************************************************)
(* C12                                                                     *)
(***************************************************************************)
\* the values an error carries
ErrorValues(err) == {err.args[i] : i \in DOMAIN err.args}

\* C12 as claimed: once EnforceAll has returned, if a call of the run returned
\* an error or a create-or-update it started has failed then the error
\* returned is not nil, and an error returned names a configured subscription.
C12_NoSilentFailure ==
    pc = "returned" =>
        /\ ((\E i \in DOMAIN calls : calls[i].err # "") \/ failed # {})
              => ret # NoError
        /\ ret # NoError
              => ErrorValues(ret) \cap DOMAIN config.Subscriptions # {}

(***************************************************************************)
(* C13                                                                     *)
(***************************************************************************)
\* This step begins the iteration of the range for a further subscription,
\* with routing enforcement on.
StartsScope ==
    /\ pc = "range"
    /\ frameAll.remaining # {}
    /\ frameAll' # frameAll
    /\ config.Features.RoutingEnforcement

\* C13 as claimed: once the context is cancelled no step begins a further
\* subscription and no create-or-update is started, and the cancellation
\* itself leaves the operations in flight as they are.
C13_NoNewWorkAfterCancel ==
    [][ /\ ctxDone => (~StartsScope /\ Len(inflight') <= Len(inflight))
        /\ (~ctxDone /\ ctxDone') => inflight' = inflight ]_vars

(***************************************************************************)
(* C14                                                                     *)
(***************************************************************************)
\* C14: subnet isolation is started for a subscription only when its NVA
\* routing step is over and no call made for the subscription has failed, and
\* no create-or-update is issued for a subscription once its subnet isolation
\* has started.
C14_RoutingBeforeIsolation ==
    /\ [](\A i \in DOMAIN calls :
             calls[i].sub \in isolated => calls[i].err = "")
    /\ [](pc = "isolation" =>
             /\ frameSub = NoFrameSub
             /\ frameVNet = NoFrameVNet
             /\ frameSubnet = NoFrameSubnet
             /\ ret = NoError
             /\ \A i \in DOMAIN calls : calls[i].err = "")
    /\ [][ (/\ Len(calls') = Len(calls) + 1
            /\ calls'[Len(calls')].op = "CreateOrUpdate")
           => (pc # "isolation" /\ calls'[Len(calls')].sub \notin isolated) ]_vars

\* C14 witness: subnet isolation has started for a subscription after a
\* create-or-update of its NVA routing step was issued.
C14_Witness ==
    /\ isolated # {}
    /\ \E i \in DOMAIN calls :
          /\ calls[i].op = "CreateOrUpdate"
          /\ calls[i].sub \in isolated

(***************************************************************************)
(* C15                                                                     *)
(***************************************************************************)
\* every network Azure holds in a subscription whose hub is configured
AllNetworks ==
    UNION {UNION {{[sub |-> s, vnet |-> vnetPages[s][p][i]] :
                      i \in DOMAIN vnetPages[s][p]} :
                  p \in DOMAIN vnetPages[s]} :
           s \in {t \in DOMAIN vnetPages \cap DOMAIN config.Subscriptions :
                     \E h \in DOMAIN config.Hubs :
                        config.Hubs[h].Name = config.Subscriptions[t].HubName}}

\* the calls that remove the peering of that network with that remote network
PeeringRemovals(n, remote) ==
    {i \in DOMAIN calls :
        /\ calls[i].op = "DeletePeering"
        /\ calls[i].sub = n.sub
        /\ calls[i].target = <<n.vnet.Name>>
        /\ calls[i].arg = remote}

\* C15 as claimed: when EnforceAll has returned nil under a configuration with
\* peering enforcement on, it has issued no removal for a peering of a
\* network with its hub and exactly one removal for every other peering.
C15_PeeringRemovals ==
    (pc = "returned" /\ ret = NoError /\ config.Features.PeeringEnforcement)
    => \A n \in AllNetworks :
          \A j \in DOMAIN n.vnet.Peerings :
             Cardinality(PeeringRemovals(n, n.vnet.Peerings[j]))
                = IF n.vnet.Peerings[j] = HubOf(n.sub).VNetID THEN 0 ELSE 1

(***************************************************************************)
(* C16                                                                     *)
(***************************************************************************)
\* C16: with routing enforcement off in the configuration EnforceAll runs
\* under, no call is issued and no operation started, and EnforceAll returns
\* nil; with it on, no create-or-update is issued under a subscription whose
\* RequireNVARouting is false.
C16_FeatureGating ==
    /\ ~config.Features.RoutingEnforcement
          => /\ calls = << >>
             /\ inflight = << >>
             /\ pc = "returned" => ret = NoError
    /\ \A i \in DOMAIN calls :
          calls[i].op = "CreateOrUpdate"
             => /\ calls[i].sub \in DOMAIN config.Subscriptions
                /\ config.Subscriptions[calls[i].sub].RequireNVARouting

\* C16 witness: with routing enforcement off, EnforceAll has returned nil for
\* two subscriptions of which one names a hub that is not configured.
C16_Witness ==
    /\ pc = "returned"
    /\ ret = NoError
    /\ ~config.Features.RoutingEnforcement
    /\ Cardinality(DOMAIN config.Subscriptions) = 2
    /\ config.Hubs # << >>
    /\ \E s \in DOMAIN config.Subscriptions :
          \A i \in DOMAIN config.Hubs :
              config.Hubs[i].Name # config.Subscriptions[s].HubName

(***************************************************************************)
(* C17                                                                     *)
(***************************************************************************)
\* C17: while an iteration of the range works for a subscription the factory
\* holds that subscription's ID, every client the iteration holds is bound
\* to it, and every call is sent under it.
C17_ClientsBound ==
    /\ [](pc \in {"vnets", "vnet", "subnets", "subnet", "routes", "isolation"}
             => /\ frameAll.subID \in DOMAIN config.Subscriptions
                /\ subscriptionID = frameAll.subID
                /\ frameSub.vnetsClient \in {"", frameAll.subID}
                /\ frameVNet.subnetsClient \in {"", frameAll.subID}
                /\ frameSubnet.routesClient \in {"", frameAll.subID})
    /\ [][ Len(calls') = Len(calls) + 1
           => calls'[Len(calls')].sub = frameAll.subID ]_vars

\* C17 witness: a create-or-update was sent under one subscription after a
\* listing under another.
C17_Witness ==
    \E i, j \in DOMAIN calls :
        /\ i < j
        /\ calls[i].op = "ListRoutes"
        /\ calls[j].op = "CreateOrUpdate"
        /\ calls[i].sub # calls[j].sub
        /\ calls[j].sub = subscriptionID

(***************************************************************************)
(* C18                                                                     *)
(***************************************************************************)
\* C18: no create-or-update carries an empty next-hop address, and under a
\* hub whose NVANextHop is empty every pass over a subnet's routes, whatever
\* the table holds, ends EnforceAll with the error "no NVA IPs defined" for
\* that hub, without a call.
C18_NoEmptyNextHop ==
    /\ [](\A i \in DOMAIN calls :
             calls[i].op = "CreateOrUpdate"
                => calls[i].arg[3] # "" /\ calls[i].arg[3] # "<nil>")
    /\ [][ (PassDecides /\ HubOf(frameAll.subID).NVANextHop = "")
           => /\ pc' = "returned"
              /\ ret'.msg = "failed to enforce NVA routing for subscription"
              /\ ret'.args = <<frameAll.subID, "no NVA IPs defined for hub",
                               HubOf(frameAll.subID).Name>>
              /\ calls' = calls
              /\ inflight' = inflight ]_vars

\* C18 witness: under a hub without an NVA address, EnforceAll returned the
\* error for a table that holds a virtual-appliance default route.
C18_Witness ==
    /\ pc = "returned"
    /\ Len(ret.args) = 3
    /\ ret.args[2] = "no NVA IPs defined for hub"
    /\ calls # << >>
    /\ calls[Len(calls)].op = "ListRoutes"
    /\ LET t == Flatten(routeTables[CallTable(calls[Len(calls)])])
       IN  \E i \in DefaultsOf(t) : t[i].NextHopType = "VirtualAppliance"

(***************************************************************************)
(* C19                                                                     *)
(***************************************************************************)
\* the texts strconv.Atoi takes for a number, among those the model uses
NumberTexts == {"8443", "0", "-1"}

\* the texts a feature override takes for true
TrueTexts == {"true", "TRUE", "True"}

\* C19: LoadConfig reads the file, then applies the overrides, then validates.
\* It has returned a configuration only when the file was read and parsed,
\* the port override, if set, is a number, and the configuration, which is
\* the file's with the overrides made, passes the three tests of Validate;
\* the error is then nil.  A step that fails ends LoadConfig with an error
\* and a nil configuration.
C19_LoadConfig ==
    /\ [][ /\ pc = "read" => pc' \in {"read", "override", "rejected"}
           /\ pc = "override" => pc' \in {"override", "load", "rejected"}
           /\ pc = "load" => pc' \in {"load", "loaded", "rejected"}
           /\ pc = "rejected" => pc' = "rejected" ]_vars
    /\ [](pc \in {"read", "override", "load", "rejected"} => loaded = << >>)
    /\ [](pc = "rejected" => ret # NoError)
    /\ [](loaded # << >> =>
             /\ pc \notin {"read", "override", "load", "rejected"}
             /\ pc = "loaded" => ret = NoError
             /\ os.file = "ok"
             /\ os.environ["API_PORT"] \in NumberTexts \cup {""}
             /\ ~InvalidConfig(loaded)
             /\ loaded.Hubs = os.data.Hubs
             /\ loaded.Subscriptions = os.data.Subscriptions
             /\ loaded.Features.RoutingEnforcement =
                   IF os.environ["FEATURE_ROUTING_ENFORCEMENT"] = ""
                   THEN os.data.Features.RoutingEnforcement
                   ELSE os.environ["FEATURE_ROUTING_ENFORCEMENT"] \in TrueTexts
             /\ loaded.Azure.SubscriptionID =
                   IF os.environ["AZURE_SUBSCRIPTION_ID"] = ""
                   THEN os.data.Azure.SubscriptionID
                   ELSE os.environ["AZURE_SUBSCRIPTION_ID"]
             /\ loaded.API.Port \in {8080, 8443, 0, -1}
             /\ os.environ["API_PORT"] = "8443" => loaded.API.Port = 8443)

\* C19 witness: LoadConfig returned nil and an error for a port override that
\* is no number, over a file whose configuration is valid.
C19_Witness ==
    /\ pc = "rejected"
    /\ loaded = << >>
    /\ ret.msg = "failed to apply environment overrides"
    /\ ret.args = <<"invalid API port", "80a">>
    /\ os.file = "ok"
    /\ ~InvalidConfig(os.data)
    /\ DOMAIN os.data.Subscriptions # {}

(***************************************************************************)
(* C20                                                                     *)
(***************************************************************************)
\* every network Azure holds
ListedNetworks ==
    UNION {UNION {{vnetPages[s][p][i] : i \in DOMAIN vnetPages[s][p]} :
                  p \in DOMAIN vnetPages[s]} :
           s \in DOMAIN vnetPages}

\* the positions 1..n of the pairs of the ID "/k1/v1/.../kn/vn"
PairsOf(id) == 1..((Len(id) - 1) \div 2)

\* the value of the last pair of the ID whose key is k
LastValue(id, k) ==
    LET at == {i \in PairsOf(id) : id[2 * i] = k}
    IN  id[2 * (CHOOSE i \in at : \A j \in at : j <= i) + 1]

\* the ID has a pair with key "resourceGroups" and the last of them has a
\* value that is not empty
HasResourceGroup(id) ==
    /\ \E i \in PairsOf(id) : id[2 * i] = "resourceGroups"
    /\ LastValue(id, "resourceGroups") # ""

\* C20: for every network ID "/k1/v1/.../kn/vn", the map of
\* extractResourceIDParts has the keys k1..kn and no other and sends each to
\* the value of its last pair, and the resource group the subnets are listed
\* under is the one of the ID; the step that takes up a network whose ID has
\* no resource group ends EnforceAll with the error "invalid VNet ID format"
\* and issues no call, and no other network is rejected with that error.
C20_ResourceIDParts ==
    /\ [](\A vnet \in ListedNetworks :
             Len(vnet.ID) % 2 = 1 =>
                LET m == extractResourceIDParts(vnet.ID)
                IN  /\ DOMAIN m = {vnet.ID[2 * i] : i \in PairsOf(vnet.ID)}
                    /\ \A k \in DOMAIN m : m[k] = LastValue(vnet.ID, k))
    /\ [](pc \in {"subnets", "subnet", "routes"} =>
             \E vnet \in ListedNetworks :
                /\ vnet.Name = frameVNet.vnetName
                /\ HasResourceGroup(vnet.ID)
                /\ frameVNet.resourceGroup = LastValue(vnet.ID, "resourceGroups"))
    /\ [][ (/\ pc = "vnet"
            /\ frameSub.page # << >>
            /\ (pc' # pc \/ frameSub' # frameSub))
           => IF HasResourceGroup(Head(frameSub.page).ID)
              THEN pc' = "returned" =>
                      (Len(ret'.args) < 2 \/ ret'.args[2] # "invalid VNet ID format")
              ELSE /\ pc' = "returned"
                   /\ ret'.args[2] = "invalid VNet ID format"
                   /\ calls' = calls
                   /\ inflight' = inflight ]_vars

\* C20 witness: a network whose ID gives the resource group twice, first as
\* rg1 and last as nothing, was rejected for its ID after the one call that
\* listed it.
C20_Witness ==
    /\ pc = "returned"
    /\ Len(ret.args) >= 2
    /\ ret.args[2] = "invalid VNet ID format"
    /\ Len(calls) = 1
    /\ calls[1].op = "ListAll"
    /\ \E vnet \in ListedNetworks :
          /\ Len(vnet.ID) = 5
          /\ vnet.ID[2] = "resourceGroups" /\ vnet.ID[3] = "rg1"
          /\ vnet.ID[4] = "resourceGroups" /\ vnet.ID[5] = ""

====
